---- MODULE Spec2Model ----
(***************************************************************************)
(* Model of the GlowBit Orb extension (orb_extension/orb.py): the ring /   *)
(* axis topology of a spherical LED ornament and the addressing queries    *)
(* built on it (get_axis_indices, get_line_indices, segment_by_axis).      *)
(***************************************************************************)
EXTENDS Integers, Sequences, FiniteSets, TLC

(* ---- bounds of the explored topologies and inputs ---- *)
MaxRings == 3
MaxCount == 4
MaxStatus == 1
MaxAxis == 6
NegAxis == 2
MaxLen == 7

(* ---- ORB_PRESETS ring layouts ---- *)
PicoRings == <<24, 12, 6, 1>>
MiniRings == <<12, 6, 1>>

VARIABLES ring_counts, status_leds, ring_map, outer_count, num_rings,
          axis_cache, op, args, res,
          now, comets, pixels, written, call, flame

vars == <<ring_counts, status_leds, ring_map, outer_count, num_rings,
          axis_cache, op, args, res, now, comets, pixels, written, call,
          flame>>

topo == <<ring_counts, status_leds, ring_map, outer_count, num_rings, axis_cache>>

\* the observed query call
query == <<op, args, res>>

\* the clock, the comet objects, the driver's pixel buffer with the log of the
\* indices handed to pixelSet, and the observed animation / pixel call
anim == <<now, comets, pixels, written, call, flame>>

(* ---- Python helpers ---- *)

\* s[:n] for a list s and an integer n (negative n counts from the end)
Slice(s, n) ==
  LET m == IF n >= 0 THEN (IF n < Len(s) THEN n ELSE Len(s))
           ELSE (IF Len(s) + n > 0 THEN Len(s) + n ELSE 0)
  IN SubSeq(s, 1, m)

\* s[1:]
Tail1(s) == IF Len(s) = 0 THEN << >> ELSE SubSeq(s, 2, Len(s))

\* list(reversed(s))
Reversed(s) == [i \in 1..Len(s) |-> s[Len(s) + 1 - i]]

Elems(s) == {s[i] : i \in 1..Len(s)}

RECURSIVE SumSeq(_)
SumSeq(s) == IF Len(s) = 0 THEN 0 ELSE s[1] + SumSeq(Tail(s))

(* ---- Orb construction ---- *)

\* variant of build_ring_map_from: the running start is not advanced
RECURSIVE build_ring_map_from_flat(_, _, _)
build_ring_map_from_flat(counts, i, start) ==
  IF i > Len(counts) THEN << >>
  ELSE <<[start |-> start, length |-> counts[i]]>>
       \o build_ring_map_from_flat(counts, i + 1, start)

\* _build_ring_map: [{'start': idx, 'length': n}, ...], start running from status_leds
RECURSIVE build_ring_map_from(_, _, _)
build_ring_map_from(counts, i, start) ==
  IF i > Len(counts) THEN << >>
  ELSE <<[start |-> start, length |-> counts[i]]>>
       \o build_ring_map_from(counts, i + 1, start + counts[i])

build_ring_map(counts, status) == build_ring_map_from(counts, 1, status)

\* self.ring_counts[0] if self.ring_counts else 0
outer_of(counts) == IF Len(counts) > 0 THEN counts[1] ELSE 0

\* variant of compute_axis_loop: local index taken as k mod count instead of
\* the proportional position
RECURSIVE compute_axis_loop_modidx(_, _, _, _, _)
compute_axis_loop_modidx(rm, outer, k, include_center, i) ==
  IF i > Len(rm) THEN << >>
  ELSE LET count == rm[i].length
           start == rm[i].start
           rest == compute_axis_loop_modidx(rm, outer, k, include_center, i + 1)
       IN IF count = 1
          THEN (IF include_center THEN <<start>> \o rest ELSE rest)
          ELSE LET numerator == k * count
               IN IF numerator % outer = 0
                  THEN <<start + (k % count)>> \o rest
                  ELSE rest

\* variant of compute_axis_loop: every ring contributes, the divisibility test is lost
RECURSIVE compute_axis_loop_noskip(_, _, _, _, _)
compute_axis_loop_noskip(rm, outer, k, include_center, i) ==
  IF i > Len(rm) THEN << >>
  ELSE LET count == rm[i].length
           start == rm[i].start
           rest == compute_axis_loop_noskip(rm, outer, k, include_center, i + 1)
       IN IF count = 1
          THEN (IF include_center THEN <<start>> \o rest ELSE rest)
          ELSE <<start + (((k * count) \div outer) % count)>> \o rest

\* variant of compute_axis_loop: a ring of length 1 gets no special case and is
\* treated by the proportional rule like any other ring
RECURSIVE compute_axis_loop_nocenter(_, _, _, _, _)
compute_axis_loop_nocenter(rm, outer, k, include_center, i) ==
  IF i > Len(rm) THEN << >>
  ELSE LET count == rm[i].length
           start == rm[i].start
           rest == compute_axis_loop_nocenter(rm, outer, k, include_center, i + 1)
           numerator == k * count
       IN IF numerator % outer = 0
          THEN <<start + ((numerator \div outer) % count)>> \o rest
          ELSE rest

\* _compute_axis_indices: the loop over ring_map, from ring i on
RECURSIVE compute_axis_loop(_, _, _, _, _)
compute_axis_loop(rm, outer, k, include_center, i) ==
  IF i > Len(rm) THEN << >>
  ELSE LET count == rm[i].length
           start == rm[i].start
           rest == compute_axis_loop(rm, outer, k, include_center, i + 1)
       IN IF count = 1
          THEN (IF include_center THEN <<start>> \o rest ELSE rest)
          ELSE LET numerator == k * count
               IN IF numerator % outer = 0
                  THEN <<start + ((numerator \div outer) % count)>> \o rest
                  ELSE rest

compute_axis_indices(rm, outer, axis, include_center) ==
  IF outer <= 0 THEN << >>
  ELSE compute_axis_loop(rm, outer, axis % outer, include_center, 1)

\* _build_axis_cache: one entry per axis 0..outer_count-1, nothing when outer_count <= 0
build_axis_cache(rm, outer) ==
  IF outer <= 0 THEN [a \in {} |-> << >>]
  ELSE [a \in 0..(outer - 1) |-> compute_axis_indices(rm, outer, a, TRUE)]

\* Orb.__init__ completes unless _compute_axis_indices divides by a ring of
\* length 0 ((numerator // outer_count) % count with count = 0, reached at axis 0)
Constructible(counts) ==
  outer_of(counts) >= 1 => \A i \in 1..Len(counts) : counts[i] # 0

BoundedLayouts == UNION {[1..n -> 0..MaxCount] : n \in 0..MaxRings}

Layouts == {c \in BoundedLayouts \cup {PicoRings, MiniRings} : Constructible(c)}

(* ---- results of a call ---- *)
Ok(v) == [err |-> FALSE, val |-> v, val2 |-> << >>]
Ok2(v, w) == [err |-> FALSE, val |-> v, val2 |-> w]
Raise == [err |-> TRUE, val |-> << >>, val2 |-> << >>]

NoArgs == [axis |-> 0, include_center |-> TRUE, include_opposite |-> TRUE,
           has_length |-> FALSE, length |-> 0]

\* self._axis_cache.get(axis, [])
cache_get(axis) == IF axis \in DOMAIN axis_cache THEN axis_cache[axis] ELSE << >>

\* variant of get_axis_indices: a topology without an outer ring yields an
\* empty column instead of an error
get_axis_indices_lenient(axis, include_center) ==
  IF outer_count = 0 THEN Ok(<< >>)
  ELSE LET a == axis % outer_count
           cached == cache_get(a)
       IN IF ~include_center
          THEN (IF Len(cached) > 0 /\ ring_counts[Len(ring_counts)] = 1
                THEN Ok(SubSeq(cached, 1, Len(cached) - 1))
                ELSE Ok(cached))
          ELSE Ok(cached)

\* variant of get_axis_indices: the axis is looked up without the modulo
get_axis_indices_nowrap(axis, include_center) ==
  IF outer_count = 0 THEN Raise
  ELSE LET cached == cache_get(axis)
       IN IF ~include_center
          THEN (IF Len(cached) > 0 /\ ring_counts[Len(ring_counts)] = 1
                THEN Ok(SubSeq(cached, 1, Len(cached) - 1))
                ELSE Ok(cached))
          ELSE Ok(cached)

\* Orb.get_axis_indices
get_axis_indices(axis, include_center) ==
  IF outer_count = 0 THEN Raise
  ELSE LET a == axis % outer_count
           cached == cache_get(a)
       IN IF ~include_center
          THEN (IF Len(cached) > 0 /\ ring_counts[Len(ring_counts)] = 1
                THEN Ok(SubSeq(cached, 1, Len(cached) - 1))
                ELSE Ok(cached))
          ELSE Ok(cached)

\* variant of get_line_indices: the opposite side is cut to length, not to what
\* the forward side left over
get_line_indices_cutlen(axis, has_length, length, include_opposite) ==
  LET fwd_call == get_axis_indices(axis, TRUE)
  IN IF fwd_call.err THEN Raise
     ELSE
       LET forward == IF has_length THEN Slice(fwd_call.val, length) ELSE fwd_call.val
       IN IF ~include_opposite \/ outer_count % 2 # 0
          THEN Ok(forward)
          ELSE
            LET opposite_axis == (axis + (outer_count \div 2)) % outer_count
                opposite == get_axis_indices(opposite_axis, TRUE).val
                opposite_rev == Reversed(opposite)
                deduped == IF /\ Len(forward) > 0
                              /\ Len(opposite_rev) > 0
                              /\ forward[Len(forward)] = opposite_rev[1]
                           THEN Tail1(opposite_rev)
                           ELSE opposite_rev
                cut == IF has_length THEN Slice(deduped, length) ELSE deduped
            IN Ok(forward \o cut)

\* Orb.get_line_indices (has_length = FALSE models length=None)
get_line_indices(axis, has_length, length, include_opposite) ==
  LET fwd_call == get_axis_indices(axis, TRUE)
  IN IF fwd_call.err THEN Raise
     ELSE
       LET forward == IF has_length THEN Slice(fwd_call.val, length) ELSE fwd_call.val
       IN IF ~include_opposite \/ outer_count % 2 # 0
          THEN Ok(forward)
          ELSE
            LET opposite_axis == (axis + (outer_count \div 2)) % outer_count
                opposite == get_axis_indices(opposite_axis, TRUE).val
                opposite_rev == Reversed(opposite)
                deduped == IF /\ Len(forward) > 0
                              /\ Len(opposite_rev) > 0
                              /\ forward[Len(forward)] = opposite_rev[1]
                           THEN Tail1(opposite_rev)
                           ELSE opposite_rev
                remaining == length - Len(forward)
                cut == IF has_length
                       THEN (IF remaining > 0 THEN Slice(deduped, remaining) ELSE << >>)
                       ELSE deduped
            IN Ok(forward \o cut)

\* variant of unseen_only: the seen-set test is lost, every pixel met is appended
unseen_only_all(met) == met

\* the seen-set test of segment_by_axis (if pix not in seen: append, add): of the
\* pixels met in order, each is kept at its first occurrence only
unseen_only(met) ==
  LET firsts == {p \in 1..Len(met) : \A q \in 1..(p - 1) : met[q] # met[p]}
      nth(i) == CHOOSE p \in firsts : Cardinality({q \in firsts : q < p}) = i - 1
  IN [i \in 1..Cardinality(firsts) |-> met[nth(i)]]

\* the while loops of segment_by_axis: the pixels met walking from axis j in
\* steps of dir until k_op, column after column
RECURSIVE collect_walk(_, _, _, _)
collect_walk(all_columns, j, k_op, dir) ==
  IF j = k_op THEN << >>
  ELSE all_columns[j] \o collect_walk(all_columns, (j + dir) % outer_count, k_op, dir)

\* variant of segment_by_axis: the opposite axis is taken as outer_count // 2,
\* without adding the splitting axis
segment_by_axis_fixedop(axis, include_center) ==
  IF outer_count <= 1 THEN Ok2(<< >>, << >>)
  ELSE
    LET k == axis % outer_count
        k_op == (outer_count \div 2) % outer_count
        all_columns == [j \in 0..(outer_count - 1) |->
                          IF j = k \/ j = k_op THEN << >>
                          ELSE get_axis_indices(j, include_center).val]
        above == unseen_only(collect_walk(all_columns, (k + 1) % outer_count, k_op, 1))
        below == unseen_only(collect_walk(all_columns, (k - 1) % outer_count, k_op, -1))
    IN Ok2(below, above)

\* Orb.segment_by_axis
segment_by_axis(axis, include_center) ==
  IF outer_count <= 1 THEN Ok2(<< >>, << >>)
  ELSE
    LET k == axis % outer_count
        k_op == (k + (outer_count \div 2)) % outer_count
        all_columns == [j \in 0..(outer_count - 1) |->
                          IF j = k \/ j = k_op THEN << >>
                          ELSE get_axis_indices(j, include_center).val]
        above == unseen_only(collect_walk(all_columns, (k + 1) % outer_count, k_op, 1))
        below == unseen_only(collect_walk(all_columns, (k - 1) % outer_count, k_op, -1))
    IN Ok2(below, above)


(* ---- colours, pixel buffer and the observed call ---- *)

\* a colour value: a tuple argument ("tuple"), a string argument ("str"), the
\* value of the driver's rgbColour(r, g, b) ("rgb") or of one of its named
\* constructors red(), ..., black() ("driver")
Col(kind, name, r, g, b) == [kind |-> kind, name |-> name, r |-> r, g |-> g, b |-> b]

\* self.black()
DriverBlack == Col("driver", "black", 0, 0, 0)

\* numLEDs = status_leds + sum(ring_counts) entries, all holding v
fresh_buffer(counts, status, v) == [i \in 0..(status + SumSeq(counts) - 1) |-> v]

NoCall == [name |-> "none", idx |-> 0, ret |-> FALSE, err |-> FALSE, at |-> 0,
           elapsed |-> 0, interval |-> 0, prev_head |-> 0, prev_last |-> 0,
           clear |-> FALSE, colour |-> DriverBlack, obj |-> DriverBlack,
           rgb |-> <<0, 0, 0>>, trace |-> << >>, indices |-> << >>,
           rets |-> << >>]

\* no flame has been constructed; times in milliseconds, every other scalar
\* in thousandths
NoFlame == [made |-> FALSE, axis |-> 0, angular_width |-> 0,
            radial_limit |-> [given |-> FALSE, val |-> 0],
            include_center |-> TRUE, gust_smooth |-> 0,
            pixel_list |-> << >>, pixel_meta |-> << >>, max_ridx |-> 0,
            global_intensity |-> 1000, noise_phase |-> 0, last_time |-> 0,
            bias |-> 0, bias_target |-> 0, next_gust_time |-> 0, steps |-> 0]

\* no comet, no flame, clock at 0, an untouched buffer
AnimInit ==
  /\ now = 0
  /\ comets = << >>
  /\ pixels = fresh_buffer(ring_counts, status_leds, DriverBlack)
  /\ written = {}
  /\ call = NoCall
  /\ flame = NoFlame

\* the addressing layer built by Orb.__init__ for one of the given ring layouts
OrbInit(layouts) ==
  /\ ring_counts \in layouts
  /\ status_leds \in 0..MaxStatus
  /\ ring_map = build_ring_map(ring_counts, status_leds)
  /\ outer_count = outer_of(ring_counts)
  /\ num_rings = Len(ring_counts)
  /\ axis_cache = build_axis_cache(ring_map, outer_count)
  /\ op = "idle"
  /\ args = NoArgs
  /\ res = Ok(<< >>)

Init ==
  /\ OrbInit(Layouts)
  /\ AnimInit

AxisInputs == (-NegAxis)..MaxAxis

GetAxisIndices ==
  \E a \in AxisInputs, ic \in BOOLEAN :
    /\ op = "idle"
    /\ op' = "get_axis_indices"
    /\ args' = [NoArgs EXCEPT !.axis = a, !.include_center = ic]
    /\ res' = get_axis_indices(a, ic)
    /\ UNCHANGED <<topo, anim>>

LengthInputs == (-1)..MaxLen

GetLineIndices ==
  \E a \in AxisInputs, hl \in BOOLEAN, io \in BOOLEAN :
    \E n \in (IF hl THEN LengthInputs ELSE {0}) :
      /\ op = "idle"
      /\ op' = "get_line_indices"
      /\ args' = [NoArgs EXCEPT !.axis = a, !.has_length = hl, !.length = n,
                                !.include_opposite = io]
      /\ res' = get_line_indices(a, hl, n, io)
      /\ UNCHANGED <<topo, anim>>

SegmentByAxis ==
  \E a \in AxisInputs, ic \in BOOLEAN :
    /\ op = "idle"
    /\ op' = "segment_by_axis"
    /\ args' = [NoArgs EXCEPT !.axis = a, !.include_center = ic]
    /\ res' = segment_by_axis(a, ic)
    /\ UNCHANGED <<topo, anim>>

\* variant of get_ring_indices: the run starts one pixel early
get_ring_indices_early(ring_number) ==
  IF ring_number < 0 \/ ring_number >= num_rings THEN << >>
  ELSE LET ring == ring_map[ring_number + 1]
       IN  [k \in 1..ring.length |-> ring.start + k - 2]

\* Orb.get_ring_indices(ring_number): [] out of range, else the ring's run
get_ring_indices(ring_number) ==
  IF ring_number < 0 \/ ring_number >= num_rings THEN << >>
  ELSE LET ring == ring_map[ring_number + 1]
       IN  [k \in 1..ring.length |-> ring.start + k - 1]

\* the ring numbers asked for: every ring of the largest layout, and numbers
\* on either side of the range
RingInputs == (-1)..(MaxRings + 1)

\* orb.get_ring_indices(ring_number); the ring number travels in args.axis
GetRingIndices ==
  \E rn \in RingInputs :
    /\ op = "idle"
    /\ op' = "get_ring_indices"
    /\ args' = [NoArgs EXCEPT !.axis = rn]
    /\ res' = Ok(get_ring_indices(rn))
    /\ UNCHANGED <<topo, anim>>

\* the caller takes the returned value and goes on to its next call
ReturnToCaller ==
  /\ op # "idle"
  /\ op' = "idle"
  /\ args' = NoArgs
  /\ res' = Ok(<< >>)
  /\ UNCHANGED <<topo, anim>>

Next ==
  GetAxisIndices \/ GetLineIndices \/ SegmentByAxis \/ GetRingIndices
    \/ ReturnToCaller

Spec == Init /\ [][Next]_vars
(***************************************************************************)
(* Vocabulary of the properties                                            *)
(***************************************************************************)
RingIdx(i) == ring_map[i].start..(ring_map[i].start + ring_map[i].length - 1)
OrnamentPixels == UNION {RingIdx(i) : i \in 1..num_rings}
CenterPixels == UNION {RingIdx(i) : i \in {j \in 1..num_rings : ring_map[j].length = 1}}
RingOfPixel(x) == CHOOSE i \in 1..num_rings : x \in RingIdx(i)
NoDup(s) == Cardinality(Elems(s)) = Len(s)
Without(s, S) == SelectSeq(s, LAMBDA x : x \notin S)

(***************************************************************************)
(* C1: for outer_count >= 1, every axis k and every ring with count # 1,   *)
(* the cached column of k has an element of the ring iff                   *)
(* (k * count) mod outer_count = 0; the element is                         *)
(* start + ((k * count) / outer_count) mod count, its local index l        *)
(* satisfies l * outer_count = k * count, and the column runs outer ring   *)
(* first.                                                                  *)
(***************************************************************************)
C1_AxisRule ==
  outer_count >= 1 =>
    \A k \in 0..(outer_count - 1) :
      LET col == axis_cache[k]
      IN /\ \A i \in 1..num_rings :
              ring_map[i].length # 1 =>
                LET count == ring_map[i].length
                    start == ring_map[i].start
                    hits == {p \in 1..Len(col) : col[p] \in RingIdx(i)}
                IN /\ (hits # {}) <=> ((k * count) % outer_count = 0)
                   /\ Cardinality(hits) <= 1
                   /\ \A p \in hits :
                        /\ col[p] = start + (((k * count) \div outer_count) % count)
                        /\ (col[p] - start) * outer_count = k * count
         /\ \A p \in 1..Len(col) : col[p] \in OrnamentPixels
         /\ \A p, q \in 1..Len(col) :
              p < q => RingOfPixel(col[p]) < RingOfPixel(col[q])

\* an axis whose column takes a proportional element (local index >= 1) from a
\* smaller ring and skips another ring
C1_Witness ==
  /\ op = "get_axis_indices"
  /\ args.include_center
  /\ outer_count >= 2
  /\ args.axis \in 1..(outer_count - 1)
  /\ res.val = axis_cache[args.axis]
  /\ \E i, j \in 2..num_rings :
       /\ ring_map[i].length \notin {1, outer_count}
       /\ (args.axis * ring_map[i].length) % outer_count = 0
       /\ (ring_map[i].start + (args.axis * ring_map[i].length) \div outer_count)
            \in Elems(res.val)
       /\ ring_map[j].length # 1
       /\ (args.axis * ring_map[j].length) % outer_count # 0
       /\ Elems(res.val) \cap RingIdx(j) = {}

(***************************************************************************)
(* C2: for outer_count >= 1, get_axis_indices(a) and                       *)
(* get_axis_indices(a + outer_count) return the same list for every        *)
(* integer a and both values of include_center, and the query never fails. *)
(***************************************************************************)
C2_WrapInvariance ==
  (op = "get_axis_indices" /\ outer_count >= 1) =>
    /\ ~res.err
    /\ res = get_axis_indices(args.axis + outer_count, args.include_center)
    /\ res = get_axis_indices(args.axis - outer_count, args.include_center)

\* a negative or too large axis that still yields a non-empty column
C2_Witness ==
  /\ op = "get_axis_indices"
  /\ outer_count >= 2
  /\ (args.axis < 0 \/ args.axis >= outer_count)
  /\ ~res.err
  /\ Len(res.val) >= 2

(***************************************************************************)
(* C3 (as stated): on ring counts [24, 12, 6, 1] without status LEDs,       *)
(* get_axis_indices(6) is [6, 27, 37, 42].                                 *)
(***************************************************************************)
PicoAxis6 ==
  /\ ring_counts = PicoRings
  /\ status_leds = 0
  /\ op = "get_axis_indices"
  /\ args.axis = 6
  /\ args.include_center

C3_Original == PicoAxis6 => res.val = <<6, 27, 37, 42>>

(***************************************************************************)
(* C3 (amended): on ring counts [24, 12, 6, 1] without status LEDs,        *)
(* get_axis_indices(6) is [6, 27, 42]: outer element 6, ring-2 element 3   *)
(* and the center; ring 3 has no element on axis 6 (6 * 6 mod 24 = 12).    *)
(***************************************************************************)
C3_Amended == PicoAxis6 => (~res.err /\ res.val = <<6, 27, 42>>)

C3_Witness == PicoAxis6 /\ Len(res.val) = 3
(***************************************************************************)
(* C4 (as stated): on every topology and axis,                             *)
(* get_axis_indices(axis, include_center=False) holds no index of a ring   *)
(* of length 1 and equals the include_center=True list with exactly those  *)
(* indices removed.                                                        *)
(***************************************************************************)
C4_CenterExcluded ==
  (op = "get_axis_indices" /\ ~args.include_center /\ ~res.err) =>
    /\ Elems(res.val) \cap CenterPixels = {}
    /\ res.val = Without(get_axis_indices(args.axis, TRUE).val, CenterPixels)

(* ---- the three sets of the segmentation claims ---- *)
SegFirst == Elems(res.val)
SegSecond == Elems(res.val2)
OppositeOf(axis) == ((axis % outer_count) + (outer_count \div 2)) % outer_count
SegAxisColumns ==
  Elems(get_axis_indices(args.axis, TRUE).val)
    \cup Elems(get_axis_indices(OppositeOf(args.axis), TRUE).val)
NonLastCenters ==
  {ring_map[i].start : i \in {j \in 1..(num_rings - 1) : ring_map[j].length = 1}}
EvenSegmentation ==
  /\ op = "segment_by_axis"
  /\ ~args.include_center
  /\ outer_count >= 2
  /\ outer_count % 2 = 0

ColumnsOf(include_center) ==
  [j \in 0..(outer_count - 1) |-> get_axis_indices(j, include_center).val]
ClockwiseHalf(axis, include_center) ==
  unseen_only(collect_walk(ColumnsOf(include_center), ((axis % outer_count) + 1) % outer_count,
                           OppositeOf(axis), 1))
CounterClockwiseHalf(axis, include_center) ==
  unseen_only(collect_walk(ColumnsOf(include_center), ((axis % outer_count) - 1) % outer_count,
                           OppositeOf(axis), -1))

C8_EmptyWhenDegenerate ==
  (op = "segment_by_axis" /\ (outer_count % 2 = 1 \/ outer_count <= 1)) =>
    /\ ~res.err
    /\ res.val = << >>
    /\ res.val2 = << >>

(***************************************************************************)
(* C9: for every topology, axis, include_opposite and length >= 0,         *)
(* get_line_indices(axis, length, include_opposite) is the first length    *)
(* elements of get_line_indices(axis, None, include_opposite), and never   *)
(* has more than length elements.                                          *)
(***************************************************************************)
FullLine == get_line_indices(args.axis, FALSE, 0, args.include_opposite)

C9_TruncationIsPrefix ==
  (op = "get_line_indices" /\ args.has_length /\ args.length >= 0) =>
    /\ res.err = FullLine.err
    /\ res.val = Slice(FullLine.val, args.length)
    /\ Len(res.val) <= args.length

\* a length that ends inside the opposite side of the line
C9_Witness ==
  /\ op = "get_line_indices"
  /\ args.has_length
  /\ args.include_opposite
  /\ outer_count >= 2
  /\ outer_count % 2 = 0
  /\ args.length > Len(get_axis_indices(args.axis, TRUE).val)
  /\ args.length < Len(FullLine.val)
  /\ Len(res.val) = args.length

(***************************************************************************)
(* C10 (as stated): for every topology with outer_count >= 1, every axis   *)
(* and length, get_line_indices returns no pixel index twice.              *)
(***************************************************************************)
C10_NoDuplicates ==
  (op = "get_line_indices" /\ outer_count >= 1) => NoDup(res.val)

(* ==== colour resolution ==== *)

\* the names of the colour map of Orb._color_to_obj
OrbNames == {"red", "green", "blue", "yellow", "purple", "cyan", "white", "black"}

\* the strings given as colour names: the eight names, spelled with capitals
\* or padded with blanks, and names of no map
NameInputs == OrbNames \cup {"RED", " red ", "Black", "orange", ""}

\* str.strip() on the strings of NameInputs
Strip(s) == IF s = " red " THEN "red" ELSE s

\* str.lower() on the strings of NameInputs
Lower(s) ==
  IF s = "RED" THEN "red"
  ELSE IF s = "Black" THEN "black"
  ELSE s

\* the colour Orb._color_to_obj hands to pixelSet: rgbColour(r, g, b) for a
\* 3-tuple, the driver's constructor for a name of the map, and otherwise the
\* argument itself (a driver colour object, or a string that is no such name)
color_to_obj(colour) ==
  IF colour.kind = "tuple" THEN Col("rgb", "", colour.r, colour.g, colour.b)
  ELSE IF colour.kind = "str" /\ Lower(Strip(colour.name)) \in OrbNames
       THEN Col("driver", Lower(Strip(colour.name)), 0, 0, 0)
       ELSE colour

\* color_map of CometAnimation._parse_color
CometMap ==
  [red |-> <<255, 0, 0>>, green |-> <<0, 255, 0>>, blue |-> <<0, 0, 255>>,
   yellow |-> <<255, 255, 0>>, purple |-> <<128, 0, 128>>,
   cyan |-> <<0, 255, 255>>, white |-> <<255, 255, 255>>]

\* the fallback of CometAnimation._parse_color
Gray == <<128, 128, 128>>

\* CometAnimation._parse_color: the (r, g, b) tuple of the comet
parse_color(colour) ==
  IF colour.kind = "tuple" THEN <<colour.r, colour.g, colour.b>>
  ELSE IF colour.kind = "str"
       THEN (IF Lower(colour.name) \in DOMAIN CometMap
             THEN CometMap[Lower(colour.name)]
             ELSE Gray)
       ELSE Gray

\* colour arguments: an (r, g, b) tuple and a colour name
Tuple(r, g, b) == Col("tuple", "", r, g, b)
Name(n) == Col("str", n, 0, 0, 0)

(* ==== animations.py: CometAnimation ==== *)

\* bounds of the comet runs
MaxClock == 6
MaxTail == 3
MaxSpeed == 4
MaxStart == 4
MaxPaintLen == 2
MaxPaintAxis == 1
MaxComets == 2
MaxLeds == 3
MaxFrameClock == 1

\* defaults of CometAnimation.__init__: tail_length=4, speed=0.07, easing=True
DefaultTail == 4
DefaultSpeed == 70000
DefaultEasing == TRUE

\* int(x) of the rational n / d, d > 0: truncation toward zero
IntTrunc(n, d) == IF n >= 0 THEN n \div d ELSE -((-n) \div d)

Min2(a, b) == IF a <= b THEN a ELSE b
Max2(a, b) == IF a >= b THEN a ELSE b

\* CometAnimation.__init__, speed given in microseconds per step (speed_s =
\* speed_us / 10^6); born_ms, start_pos, colour_arg and moves are history:
\* construction clock, the start_pos and colour arguments, and the number of
\* position increments made by step() so far
new_comet(ring_number, colour, clockwise, tail_length, speed_us, start_pos, easing, t0) ==
  LET idx == get_ring_indices(ring_number)
  IN  [ring_number |-> ring_number, colour |-> parse_color(colour),
       colour_arg |-> colour, clockwise |-> clockwise,
       tail_length |-> Max2(1, tail_length), speed_us |-> speed_us,
       easing |-> easing, head_pos |-> start_pos, last_step_ms |-> t0,
       ring_indices |-> idx, ring_len |-> Len(idx),
       born_ms |-> t0, start_pos |-> start_pos, moves |-> 0]

\* interval_ms = int(self.speed_s * 1000); if interval_ms <= 0: interval_ms = 1
interval_of(speed_us) ==
  LET i == IntTrunc(speed_us, 1000) IN IF i <= 0 THEN 1 ELSE i

\* variant of advance: the position is not reduced modulo the ring length
RECURSIVE advance_nomod(_, _, _, _)
advance_nomod(h, n, clockwise, len) ==
  IF n = 0 THEN h
  ELSE advance_nomod(IF clockwise THEN h + 1 ELSE h - 1, n - 1, clockwise, len)

\* the loop of step(): n single steps of +1 / -1 modulo ring_len
RECURSIVE advance(_, _, _, _)
advance(h, n, clockwise, len) ==
  IF n = 0 THEN h
  ELSE advance(IF clockwise THEN (h + 1) % len ELSE (h - 1) % len,
               n - 1, clockwise, len)

\* variant of comet_step: the comet moves only when elapsed exceeds the interval
comet_step_strict(c, now_ms) ==
  IF c.ring_len = 0 THEN [comet |-> c, ret |-> FALSE]
  ELSE LET elapsed == now_ms - c.last_step_ms
           interval_ms == interval_of(c.speed_us)
       IN  IF elapsed > interval_ms
           THEN LET steps == Max2(1, elapsed \div interval_ms)
                IN  [comet |-> [c EXCEPT
                       !.head_pos = advance(c.head_pos, steps, c.clockwise, c.ring_len),
                       !.last_step_ms = now_ms,
                       !.moves = c.moves + steps],
                     ret |-> TRUE]
           ELSE [comet |-> c, ret |-> FALSE]

\* CometAnimation.step() at clock now_ms: the comet after the call and the
\* returned flag (ticks_diff taken as the plain difference: no wrap of the
\* tick counter inside the explored clock range)
comet_step(c, now_ms) ==
  IF c.ring_len = 0 THEN [comet |-> c, ret |-> FALSE]
  ELSE LET elapsed == now_ms - c.last_step_ms
           interval_ms == interval_of(c.speed_us)
       IN  IF elapsed >= interval_ms
           THEN LET steps == Max2(1, elapsed \div interval_ms)
                IN  [comet |-> [c EXCEPT
                       !.head_pos = advance(c.head_pos, steps, c.clockwise, c.ring_len),
                       !.last_step_ms = now_ms,
                       !.moves = c.moves + steps],
                     ret |-> TRUE]
           ELSE [comet |-> c, ret |-> FALSE]

\* _smoothstep on the rational n / d (d > 0), as a pair <<numerator, denominator>>
smoothstep(n, d) ==
  IF n <= 0 THEN <<0, 1>>
  ELSE IF n >= d THEN <<1, 1>>
  ELSE <<n * n * (3 * d - 2 * n), d * d * d>>

\* variant of frac_of: brightness grows with the distance from the head
frac_of_rising(t, tail, easing) ==
  IF easing THEN smoothstep(t + 1, tail) ELSE <<t + 1, tail>>

\* frac = 1.0 - (t / float(tail)), eased by _smoothstep when easing is set
frac_of(t, tail, easing) ==
  IF easing THEN smoothstep(tail - t, tail) ELSE <<tail - t, tail>>

\* variant of render_at: the tail runs ahead of the head
render_at_ahead(c, t) ==
  LET head == c.head_pos % c.ring_len
      tail == Min2(c.tail_length, c.ring_len)
      pos  == IF c.clockwise THEN (head + t) % c.ring_len ELSE (head - t) % c.ring_len
      f    == frac_of(t, tail, c.easing)
  IN  [pix |-> c.ring_indices[pos + 1], t |-> t, frac |-> f,
       rgb |-> <<IntTrunc(c.colour[1] * f[1], f[2]),
                 IntTrunc(c.colour[2] * f[1], f[2]),
                 IntTrunc(c.colour[3] * f[1], f[2])>>]

\* one iteration of the loop of render(): the pixel and its contribution
render_at(c, t) ==
  LET head == c.head_pos % c.ring_len
      tail == Min2(c.tail_length, c.ring_len)
      pos  == IF c.clockwise THEN (head - t) % c.ring_len ELSE (head + t) % c.ring_len
      f    == frac_of(t, tail, c.easing)
  IN  [pix |-> c.ring_indices[pos + 1], t |-> t, frac |-> f,
       rgb |-> <<IntTrunc(c.colour[1] * f[1], f[2]),
                 IntTrunc(c.colour[2] * f[1], f[2]),
                 IntTrunc(c.colour[3] * f[1], f[2])>>]

\* render(): the contributions in loop order, t = 0 .. tail - 1
render_trace(c) ==
  IF c.ring_len = 0 THEN << >>
  ELSE [k \in 1..Min2(c.tail_length, c.ring_len) |-> render_at(c, k - 1)]

(* ---- a single comet on its ring, stepped as the clock advances ---- *)

CometLayouts == {c \in Layouts : Len(c) <= 1}

CometColours == {Tuple(255, 128, 7)}

SpeedInputs == {500 * k : k \in (-1)..MaxSpeed}

CometInit ==
  /\ OrbInit(CometLayouts)
  /\ AnimInit

\* c = CometAnimation(orb, ring_number, colour, clockwise, speed=..., start_pos=...)
\* with tail_length and easing left at their defaults
CreateComet ==
  \E rn \in 0..1, col \in CometColours, cw \in BOOLEAN,
     sp \in SpeedInputs, st \in (-1)..MaxStart :
    /\ comets = << >>
    /\ comets' = <<new_comet(rn, col, cw, DefaultTail, sp, st, DefaultEasing, now)>>
    /\ call' = [NoCall EXCEPT !.name = "init", !.at = now]
    /\ UNCHANGED <<topo, query, now, pixels, written, flame>>

\* the tick counter advances by one millisecond
CometTick ==
  /\ now < MaxClock
  /\ now' = now + 1
  /\ call' = NoCall
  /\ UNCHANGED <<topo, query, comets, pixels, written, flame>>

\* moved = c.step()
CometStep ==
  /\ Len(comets) = 1
  /\ LET c == comets[1]
         r == comet_step(c, now)
     IN  /\ comets' = <<r.comet>>
         /\ call' = [NoCall EXCEPT !.name = "step", !.ret = r.ret, !.at = now,
                       !.elapsed = now - c.last_step_ms,
                       !.interval = interval_of(c.speed_us),
                       !.prev_head = c.head_pos,
                       !.prev_last = c.last_step_ms]
  /\ UNCHANGED <<topo, query, now, pixels, written, flame>>

CometNext == CreateComet \/ CometTick \/ CometStep

SpecComet == CometInit /\ [][CometNext]_vars

(* ---- a comet of any tail length and easing, rendered where it stands ---- *)

RenderColours == {Tuple(255, 128, 7), Tuple(1, 2, 3), Tuple(0, 255, 100)}

\* c = CometAnimation(orb, ring_number, colour, clockwise, tail_length, speed,
\*                    start_pos, easing)
RenderCreate ==
  \E rn \in 0..1, col \in RenderColours, cw \in BOOLEAN, tl \in 0..MaxTail,
     st \in (-1)..MaxStart, ea \in BOOLEAN :
    /\ comets = << >>
    /\ comets' = <<new_comet(rn, col, cw, tl, DefaultSpeed, st, ea, now)>>
    /\ call' = [NoCall EXCEPT !.name = "init", !.at = now]
    /\ UNCHANGED <<topo, query, now, pixels, written, flame>>

\* accum = {}; c.render(accum)
CometRender ==
  /\ Len(comets) = 1
  /\ call' = [NoCall EXCEPT !.name = "render", !.at = now,
                !.trace = render_trace(comets[1])]
  /\ UNCHANGED <<topo, query, now, comets, pixels, written, flame>>

RenderNext == RenderCreate \/ CometRender

SpecRender == CometInit /\ [][RenderNext]_vars

(* ==== claims on CometAnimation.step ==== *)

\* the comet under observation stands on a ring with at least one element
OnRing == Len(comets) = 1 /\ comets[1].ring_len > 0

\* C11: one step() with elapsed e and interval i = max(1, int(speed * 1000)):
\* e >= i moves the head to (head + d * floor(e / i)) mod ring_len, records
\* the clock of the call and returns True; e < i returns False and leaves
\* head and timestamp as they were
C11_StepContract ==
  (OnRing /\ call.name = "step") =>
    LET c == comets[1]
        e == call.elapsed
        i == Max2(1, IntTrunc(c.speed_us, 1000))
        d == IF c.clockwise THEN 1 ELSE -1
    IN  IF e >= i
        THEN /\ c.head_pos = (call.prev_head + d * (e \div i)) % c.ring_len
             /\ c.last_step_ms = call.at
             /\ call.ret
        ELSE /\ ~call.ret
             /\ c.head_pos = call.prev_head
             /\ c.last_step_ms = call.prev_last

\* a counter-clockwise comet catching up two or more intervals in one call
C11_Witness ==
  /\ OnRing
  /\ call.name = "step"
  /\ call.ret
  /\ call.interval = 2
  /\ call.elapsed \div call.interval >= 2
  /\ ~comets[1].clockwise
  /\ comets[1].ring_len >= 3

\* C12: after any sequence of step() calls the number of head increments made
\* since construction is floor((clock of the last call - clock of
\* construction) / interval): no elapsed time is dropped
C12_NoTimeSkipped ==
  (OnRing /\ call.name = "step") =>
    comets[1].moves = (call.at - comets[1].born_ms) \div interval_of(comets[1].speed_us)

\* C13: the head position of a comet on a non-empty ring is always within
\* 0 .. ring_len - 1, from construction on
C13_HeadInRange ==
  OnRing => (0 <= comets[1].head_pos /\ comets[1].head_pos < comets[1].ring_len)

(* ==== claims on CometAnimation.render ==== *)

\* a / b <= c / d for positive denominators
FracLeq(x, y) == x[1] * y[2] <= y[1] * x[2]

\* C15: over t = 0 .. min(tail_length, ring_len) - 1 the brightness fraction
\* is 1 at t = 0, where the pixel receives the full base colour, and never
\* grows with t; neither does any channel value added to the accumulator
C15_TailFades ==
  (OnRing /\ call.name = "render") =>
    LET c == comets[1]
        tr == call.trace
    IN  /\ Len(tr) = Min2(c.tail_length, c.ring_len)
        /\ tr[1].t = 0
        /\ tr[1].frac[1] = tr[1].frac[2]
        /\ tr[1].rgb = c.colour
        /\ \A k \in 1..(Len(tr) - 1) :
             /\ tr[k + 1].t = tr[k].t + 1
             /\ FracLeq(tr[k + 1].frac, tr[k].frac)
             /\ \A ch \in 1..3 : tr[k + 1].rgb[ch] <= tr[k].rgb[ch]

\* an eased tail of three pixels whose brightest channel strictly fades
C15_Witness ==
  /\ OnRing
  /\ call.name = "render"
  /\ comets[1].easing
  /\ Len(call.trace) = 3
  /\ comets[1].ring_len > 3
  /\ call.trace[1].rgb[1] = 255
  /\ call.trace[2].rgb[1] < 255
  /\ call.trace[3].rgb[1] < call.trace[2].rgb[1]
  /\ call.trace[3].rgb[1] > 0

(* ==== pixel writes ==== *)

\* for idx in indices: self.pixelSet(idx, col)
set_pixels(buf, indices, col) ==
  [i \in DOMAIN buf |-> IF i \in Elems(indices) THEN col ELSE buf[i]]

\* range(ornament_start, ornament_start + ornament_total) of clear_ornament
\* and fill_ornament; nothing when ring_map is empty
ornament_range ==
  IF Len(ring_map) = 0 THEN << >>
  ELSE LET ornament_start == ring_map[1].start
           ornament_total == SumSeq([i \in 1..Len(ring_map) |-> ring_map[i].length])
       IN  [k \in 1..ornament_total |-> ornament_start + k - 1]

\* the outcome of a writing call: the indices handed to pixelSet in order of
\* the calls, the colour object written, and whether the call raised
Wrote(indices, obj) == [err |-> FALSE, indices |-> indices, obj |-> obj]
WroteNothing == [err |-> TRUE, indices |-> << >>, obj |-> DriverBlack]

\* Orb.clear_ornament
clear_ornament == Wrote(ornament_range, DriverBlack)

\* variant of fill_ornament: the last index of the range is left out
fill_ornament_short(colour) ==
  Wrote(SubSeq(ornament_range, 1, Len(ornament_range) - 1), color_to_obj(colour))

\* Orb.fill_ornament
fill_ornament(colour) == Wrote(ornament_range, color_to_obj(colour))

\* Orb.set_ring
set_ring(ring_number, colour) ==
  Wrote(get_ring_indices(ring_number), color_to_obj(colour))

\* Orb.set_axis: get_axis_indices raises before anything is written
set_axis(axis, colour, has_length, length) ==
  LET r == get_axis_indices(axis, TRUE)
  IN  IF r.err THEN WroteNothing
      ELSE Wrote(IF has_length THEN Slice(r.val, length) ELSE r.val,
                 color_to_obj(colour))

\* Orb.set_line
set_line(axis, colour, has_length, length, include_opposite) ==
  LET r == get_line_indices(axis, has_length, length, include_opposite)
  IN  IF r.err THEN WroteNothing
      ELSE Wrote(r.val, color_to_obj(colour))

(* ==== animations.py: step_comets ==== *)

\* the contributions of all comets in list order, each comet's in tail order
RECURSIVE all_traces(_, _)
all_traces(cs, k) ==
  IF k > Len(cs) THEN << >> ELSE render_trace(cs[k]) \o all_traces(cs, k + 1)

\* variant of channel_sum: a later contribution replaces the earlier ones
RECURSIVE channel_last(_, _, _)
channel_last(contribs, pix, ch) ==
  IF Len(contribs) = 0 THEN 0
  ELSE LET rest == SubSeq(contribs, 1, Len(contribs) - 1)
           last == contribs[Len(contribs)]
       IN  IF last.pix = pix THEN last.rgb[ch] ELSE channel_last(rest, pix, ch)

\* accum[pix][ch] after every comet has rendered: the contributions to pix added up
RECURSIVE channel_sum(_, _, _)
channel_sum(contribs, pix, ch) ==
  IF Len(contribs) = 0 THEN 0
  ELSE (IF contribs[1].pix = pix THEN contribs[1].rgb[ch] ELSE 0)
       + channel_sum(Tail(contribs), pix, ch)

\* variant of step_comets: once a comet has moved, the comets after it in the
\* list are not stepped (any_moved = any_moved or comet.step())
step_comets_lazy(cs, now_ms, clear, buf) ==
  LET stepped == [k \in 1..Len(cs) |->
                    IF \E j \in 1..(k - 1) : comet_step(cs[j], now_ms).ret
                    THEN [comet |-> cs[k], ret |-> FALSE]
                    ELSE comet_step(cs[k], now_ms)]
      moved == [k \in 1..Len(cs) |-> stepped[k].comet]
      cleared == IF clear THEN clear_ornament.indices ELSE << >>
      buf1 == set_pixels(buf, cleared, DriverBlack)
      contribs == all_traces(moved, 1)
      keys == unseen_only([k \in 1..Len(contribs) |-> contribs[k].pix])
      accum == [k \in 1..Len(keys) |->
                  [pix |-> keys[k],
                   rgb |-> <<channel_sum(contribs, keys[k], 1),
                             channel_sum(contribs, keys[k], 2),
                             channel_sum(contribs, keys[k], 3)>>]]
      flushed(i) == LET a == CHOOSE k \in 1..Len(keys) : keys[k] = i
                    IN  Col("rgb", "", Min2(255, accum[a].rgb[1]),
                            Min2(255, accum[a].rgb[2]), Min2(255, accum[a].rgb[3]))
  IN  [comets |-> moved,
       ret |-> \E k \in 1..Len(cs) : stepped[k].ret,
       rets |-> [k \in 1..Len(cs) |-> stepped[k].ret],
       accum |-> accum,
       pixels |-> [i \in DOMAIN buf1 |-> IF i \in Elems(keys) THEN flushed(i) ELSE buf1[i]],
       indices |-> cleared \o keys]

\* step_comets(orb, cs, clear) at clock now_ms on buffer buf: the comets after
\* their step(), the returned flag, what each step() returned, the
\* accumulator, the buffer after the optional clear_ornament and the flush,
\* and the indices handed to pixelSet
step_comets(cs, now_ms, clear, buf) ==
  LET stepped == [k \in 1..Len(cs) |-> comet_step(cs[k], now_ms)]
      moved == [k \in 1..Len(cs) |-> stepped[k].comet]
      cleared == IF clear THEN clear_ornament.indices ELSE << >>
      buf1 == set_pixels(buf, cleared, DriverBlack)
      contribs == all_traces(moved, 1)
      keys == unseen_only([k \in 1..Len(contribs) |-> contribs[k].pix])
      accum == [k \in 1..Len(keys) |->
                  [pix |-> keys[k],
                   rgb |-> <<channel_sum(contribs, keys[k], 1),
                             channel_sum(contribs, keys[k], 2),
                             channel_sum(contribs, keys[k], 3)>>]]
      flushed(i) == LET a == CHOOSE k \in 1..Len(keys) : keys[k] = i
                    IN  Col("rgb", "", Min2(255, accum[a].rgb[1]),
                            Min2(255, accum[a].rgb[2]), Min2(255, accum[a].rgb[3]))
  IN  [comets |-> moved,
       ret |-> \E k \in 1..Len(cs) : stepped[k].ret,
       rets |-> [k \in 1..Len(cs) |-> stepped[k].ret],
       accum |-> accum,
       pixels |-> [i \in DOMAIN buf1 |-> IF i \in Elems(keys) THEN flushed(i) ELSE buf1[i]],
       indices |-> cleared \o keys]

(* ==== calls that write pixels, observed one at a time ==== *)

\* a call of the given name that handed w.indices to pixelSet with colour
\* w.obj, or raised before any write
Paint(name, a, colour, w) ==
  /\ op = "idle"
  /\ op' = name
  /\ args' = a
  /\ res' = IF w.err THEN Raise ELSE Ok(w.indices)
  /\ pixels' = set_pixels(pixels, w.indices, w.obj)
  /\ written' = written \cup Elems(w.indices)
  /\ call' = [NoCall EXCEPT !.name = name, !.err = w.err, !.colour = colour,
                !.obj = w.obj, !.indices = w.indices]
  /\ UNCHANGED <<topo, now, comets, flame>>

\* the axis arguments of set_axis and set_line
PaintAxes == (-1)..MaxPaintAxis

\* the length arguments of set_axis and set_line
PaintLengths == (-1)..MaxPaintLen

PaintColours == {Tuple(255, 128, 0), Name("RED")}

\* orb.clear_ornament()
ClearOrnament == Paint("clear_ornament", NoArgs, DriverBlack, clear_ornament)

\* orb.fill_ornament(colour)
FillWith(colours) ==
  \E col \in colours : Paint("fill_ornament", NoArgs, col, fill_ornament(col))

FillOrnament == FillWith(PaintColours)

\* orb.set_ring(ring_number, colour); the ring number travels in args.axis
SetRing ==
  \E rn \in (-1)..MaxRings, col \in PaintColours :
    Paint("set_ring", [NoArgs EXCEPT !.axis = rn], col, set_ring(rn, col))

\* orb.set_axis(axis, colour, length)
SetAxis ==
  \E a \in PaintAxes, col \in PaintColours, hl \in BOOLEAN :
    \E n \in (IF hl THEN PaintLengths ELSE {0}) :
      Paint("set_axis", [NoArgs EXCEPT !.axis = a, !.has_length = hl, !.length = n],
            col, set_axis(a, col, hl, n))

\* orb.set_line(axis, colour, length, include_opposite)
SetLine ==
  \E a \in PaintAxes, col \in PaintColours, hl \in BOOLEAN, io \in BOOLEAN :
    \E n \in (IF hl THEN PaintLengths ELSE {0}) :
      Paint("set_line", [NoArgs EXCEPT !.axis = a, !.has_length = hl, !.length = n,
                                        !.include_opposite = io],
            col, set_line(a, col, hl, n, io))

\* moved = step_comets(orb, comets, clear)
StepComets ==
  \E clear \in BOOLEAN :
    LET r == step_comets(comets, now, clear, pixels)
    IN  /\ op = "idle"
        /\ op' = "step_comets"
        /\ args' = NoArgs
        /\ res' = Ok(r.indices)
        /\ comets' = r.comets
        /\ pixels' = r.pixels
        /\ written' = written \cup Elems(r.indices)
        /\ call' = [NoCall EXCEPT !.name = "step_comets", !.ret = r.ret,
                      !.clear = clear, !.at = now, !.trace = r.accum,
                      !.indices = r.indices, !.rets = r.rets]
        /\ UNCHANGED <<topo, now, flame>>

\* the caller takes the outcome of the call
FrameReturn ==
  /\ op # "idle"
  /\ op' = "idle"
  /\ args' = NoArgs
  /\ res' = Ok(<< >>)
  /\ call' = NoCall
  /\ UNCHANGED <<topo, now, comets, pixels, written, flame>>

\* the tick counter advances by one millisecond between two calls
FrameTick ==
  /\ op = "idle"
  /\ now < MaxFrameClock
  /\ now' = now + 1
  /\ UNCHANGED <<topo, query, comets, pixels, written, call, flame>>

\* ring layouts of at most MaxLeds ornament pixels
SmallLayouts == {c \in Layouts : SumSeq(c) <= MaxLeds}

(* ---- axis queries and axis writes, on topologies with and without an outer ring ---- *)

AxisOpsInit ==
  /\ OrbInit(SmallLayouts)
  /\ AnimInit

AxisOpsNext ==
  GetAxisIndices \/ GetLineIndices \/ SetAxis \/ SetLine \/ FrameReturn

SpecAxisOps == AxisOpsInit /\ [][AxisOpsNext]_vars

(* ==== claims on the pixel-writing calls ==== *)

\* C18: on a topology with outer_count = 0, get_axis_indices,
\* get_line_indices, set_axis and set_line all end in an error, and nothing
\* is handed to pixelSet: the buffer stays as it was built
C18_NoOuterRingRaises ==
  (outer_count = 0 /\ op \in {"get_axis_indices", "get_line_indices",
                             "set_axis", "set_line"}) =>
    /\ res.err
    /\ op \in {"set_axis", "set_line"} =>
         (call.err /\ call.indices = << >>)
    /\ written = {}
    /\ pixels = fresh_buffer(ring_counts, status_leds, DriverBlack)

\* set_line on a layout with an empty outer ring and inner pixels
C18_Witness ==
  /\ outer_count = 0
  /\ SumSeq(ring_counts) > 0
  /\ op = "set_line"
  /\ call.name = "set_line"
  /\ res.err

(* ---- an ornament painted call after call, with comets on its outer ring ---- *)

\* the comet lists handed to step_comets
PaintComets ==
  {<< >>,
   <<new_comet(0, Tuple(255, 128, 0), TRUE, 2, 1000, 0, FALSE, 0)>>}

\* ornaments of one or two rings
PaintLayouts == {c \in SmallLayouts : Len(c) <= 2}

PaintInit ==
  /\ OrbInit(PaintLayouts)
  /\ now = 0
  /\ comets \in PaintComets
  /\ pixels = fresh_buffer(ring_counts, status_leds, DriverBlack)
  /\ written = {}
  /\ call = NoCall
  /\ flame = NoFlame

PaintNext ==
  \/ ClearOrnament
  \/ FillOrnament
  \/ SetRing
  \/ SetAxis
  \/ SetLine
  \/ StepComets
  \/ FrameReturn
  \/ FrameTick

SpecPaint == PaintInit /\ [][PaintNext]_vars

\* the colour object a colour argument stands for: rgbColour of the channels
\* of a tuple, the driver's constructor of a colour name
ColourOf(c) ==
  IF c.kind = "tuple" THEN Col("rgb", "", c.r, c.g, c.b)
  ELSE Col("driver", Lower(Strip(c.name)), 0, 0, 0)

\* C16: after fill_ornament(colour) every index of every ring holds the fill
\* colour, and after clear_ornament() every index of every ring holds black,
\* whatever the buffer held before (so does fill followed by clear)
C16_FillThenClear ==
  /\ op = "fill_ornament" =>
       \A i \in OrnamentPixels : pixels[i] = ColourOf(call.colour)
  /\ op = "clear_ornament" =>
       \A i \in OrnamentPixels : pixels[i] = DriverBlack

\* a cleared ornament of two rings next to a status pixel, every pixel of
\* which has been written
C16_Witness ==
  /\ op = "clear_ornament"
  /\ num_rings = 2
  /\ status_leds = 1
  /\ Cardinality(OrnamentPixels) >= 3
  /\ written = OrnamentPixels
  /\ Len(call.indices) = Cardinality(OrnamentPixels)
  /\ \A i \in OrnamentPixels : pixels[i] = DriverBlack

\* C17: whatever sequence of clear_ornament, fill_ornament, set_ring,
\* set_axis, set_line and step_comets calls is made, no index below
\* status_leds and none from status_leds + sum(ring_counts) on is handed to
\* pixelSet, and the status pixels keep their content
C17_StatusPreserved ==
  /\ \A i \in written :
       status_leds <= i /\ i < status_leds + SumSeq(ring_counts)
  /\ \A i \in 0..(status_leds - 1) : pixels[i] = DriverBlack

\* step_comets has just cleared and drawn on an ornament behind a status pixel
C17_Witness ==
  /\ status_leds = 1
  /\ op = "step_comets"
  /\ call.clear
  /\ call.ret
  /\ Len(call.trace) = 2
  /\ written = OrnamentPixels
  /\ Cardinality(written) >= 3

(* ---- comets blended on one ring ---- *)

\* the comets of a frame: two colours whose channels add up beyond 255, both
\* directions, two start positions, a tail of two pixels without easing
BlendComets ==
  {new_comet(0, col, cw, 2, 1000, st, FALSE, 0) :
     col \in {Tuple(200, 100, 0), Tuple(100, 200, 300)},
     cw \in BOOLEAN, st \in 0..1}

\* ornaments of a single ring
BlendLayouts == {c \in SmallLayouts : Len(c) = 1}

BlendInit ==
  /\ OrbInit(BlendLayouts)
  /\ now = 0
  /\ comets \in UNION {[1..n -> BlendComets] : n \in 0..MaxComets}
  /\ pixels = fresh_buffer(ring_counts, status_leds, DriverBlack)
  /\ written = {}
  /\ call = NoCall
  /\ flame = NoFlame

BlendNext == StepComets \/ FrameReturn \/ FrameTick

SpecBlend == BlendInit /\ [][BlendNext]_vars

\* what comet c adds to channel ch of pixel pix
Contribution(c, pix, ch) ==
  LET hits == {k \in 1..Len(render_trace(c)) : render_trace(c)[k].pix = pix}
  IN  IF hits = {} THEN 0 ELSE render_trace(c)[CHOOSE k \in hits : TRUE].rgb[ch]

\* the sum over all comets, taken from the last comet to the first
RECURSIVE TotalUpTo(_, _, _)
TotalUpTo(n, pix, ch) ==
  IF n = 0 THEN 0 ELSE Contribution(comets[n], pix, ch) + TotalUpTo(n - 1, pix, ch)

Total(pix, ch) == TotalUpTo(Len(comets), pix, ch)

\* the pixels lying in the tail of at least one comet
TailPixels ==
  UNION {{render_trace(comets[k])[j].pix : j \in 1..Len(render_trace(comets[k]))} :
           k \in 1..Len(comets)}

\* C14: after step_comets every pixel in the tail of some comet holds, per
\* channel, min(255, sum of the comets' contributions); the accumulator holds
\* the sums themselves, not clamped; the comets taken in the opposite order
\* give the same buffer
C14_AdditiveBlend ==
  op = "step_comets" =>
    /\ \A pix \in TailPixels :
         pixels[pix] = Col("rgb", "", Min2(255, Total(pix, 1)),
                           Min2(255, Total(pix, 2)), Min2(255, Total(pix, 3)))
    /\ {call.trace[k].pix : k \in 1..Len(call.trace)} = TailPixels
    /\ \A k \in 1..Len(call.trace) :
         call.trace[k].rgb = <<Total(call.trace[k].pix, 1),
                               Total(call.trace[k].pix, 2),
                               Total(call.trace[k].pix, 3)>>
    /\ step_comets(Reversed(comets), now, call.clear, pixels).pixels = pixels

\* two comets meet on a pixel: the green channel adds up to 300 in the
\* accumulator and is written as 255
C14_Witness ==
  /\ op = "step_comets"
  /\ Len(comets) = 2
  /\ call.ret
  /\ \E k \in 1..Len(call.trace) :
       /\ call.trace[k].rgb[2] = 300
       /\ pixels[call.trace[k].pix].g = 255
       /\ pixels[call.trace[k].pix].r = 255

(* ---- colour arguments of every form, resolved by a fill and by a comet ---- *)

\* tuples, strings, and colour objects obtained from the driver beforehand
ColourInputs ==
  {Tuple(r, g, b) : r \in {0, 255}, g \in {0, 128}, b \in {7}}
    \cup {Name(n) : n \in NameInputs}
    \cup {Col("driver", "blue", 0, 0, 0), Col("rgb", "", 1, 2, 3)}

ColourInit ==
  /\ OrbInit(BlendLayouts)
  /\ AnimInit

\* orb.fill_ornament(colour) with any colour argument
FillAny == FillWith(ColourInputs)

\* c = CometAnimation(orb, 0, colour)
CreateColoured ==
  \E col \in ColourInputs :
    /\ op = "idle"
    /\ comets = << >>
    /\ comets' = <<new_comet(0, col, TRUE, DefaultTail, DefaultSpeed, 0, DefaultEasing, now)>>
    /\ call' = [NoCall EXCEPT !.name = "init", !.at = now, !.colour = col]
    /\ UNCHANGED <<topo, query, now, pixels, written, flame>>

ColourNext == FillAny \/ FrameReturn \/ CreateColoured \/ CometRender

SpecColour == ColourInit /\ [][ColourNext]_vars

(* ==== claims on colour resolution ==== *)

\* the gray colour object, rgbColour(128, 128, 128)
GrayObj == Col("rgb", "", 128, 128, 128)

\* a string that is none of the eight names, however it is spelled
Unrecognised(c) == c.kind = "str" /\ Lower(Strip(c.name)) \notin OrbNames

\* C19: a colour name that is not recognised resolves to gray (128, 128, 128)
\* in Orb._color_to_obj and in CometAnimation._parse_color alike, and no
\* string reaches the pixel driver
C19_GrayFallback ==
  /\ (op = "fill_ornament" /\ Unrecognised(call.colour)) => call.obj = GrayObj
  /\ \A k \in 1..Len(comets) :
       Unrecognised(comets[k].colour_arg) => comets[k].colour = Gray
  /\ \A i \in DOMAIN pixels : pixels[i].kind # "str"

\* C20: each of red, green, blue, yellow, purple, cyan, white and black is
\* resolved by both resolvers to the colour of that name and not to the
\* fallback; a comet created with 'black' holds and renders (0, 0, 0)
C20_EightNames ==
  /\ (op = "fill_ornament" /\ call.colour.kind = "str"
        /\ call.colour.name \in OrbNames) =>
       call.obj = Col("driver", call.colour.name, 0, 0, 0)
  /\ \A k \in 1..Len(comets) :
       LET a == comets[k].colour_arg
       IN  (a.kind = "str" /\ a.name \in OrbNames) =>
             /\ comets[k].colour # Gray
             /\ a.name = "black" => comets[k].colour = <<0, 0, 0>>
             /\ (a.name = "black" /\ call.name = "render" /\ comets[k].ring_len > 0) =>
                  call.trace[1].rgb = <<0, 0, 0>>

(* ==== claims on the center, the rings and construction ==== *)

\* C22: whenever get_axis_indices(a) returns, for every ring of length 1 the
\* one element it selects on that ring is the ring's start offset, whatever
\* the axis a: the center is shared by every axis
C22_CenterShared ==
  (op = "get_axis_indices" /\ args.include_center /\ ~res.err) =>
    \A i \in 1..num_rings :
      ring_map[i].length = 1 =>
        /\ \E p \in 1..Len(res.val) : res.val[p] = ring_map[i].start
        /\ \A a, b \in 0..(outer_count - 1) :
             {x \in Elems(axis_cache[a]) : x \in RingIdx(i)}
               = {x \in Elems(axis_cache[b]) : x \in RingIdx(i)}

\* an axis other than 0 whose column holds the single pixel of a ring that
\* is not the last one
C22_Witness ==
  /\ op = "get_axis_indices"
  /\ args.include_center
  /\ ~res.err
  /\ outer_count >= 3
  /\ args.axis % outer_count # 0
  /\ num_rings = 3
  /\ ring_map[2].length = 1
  /\ ring_map[2].start \in Elems(res.val)

\* the start offset of ring n (0-based): the status pixels and the rings
\* before it
StartOf(n) == status_leds + SumSeq(SubSeq(ring_counts, 1, n))

\* start_n .. start_n + count_n - 1 as a list
RingRange(n) == [k \in 1..ring_counts[n + 1] |-> StartOf(n) + k - 1]

\* C23: get_ring_indices(n) for 0 <= n < num_rings is the contiguous range
\* start_n .. start_n + count_n - 1; the ranges of distinct rings are disjoint
\* and together make up status_leds .. status_leds + sum(ring_counts) - 1;
\* for any other n the result is the empty list, without an error, and
\* set_ring writes nothing
C23_RingRanges ==
  /\ \A n \in 0..(num_rings - 1) : get_ring_indices(n) = RingRange(n)
  /\ \A m, n \in 0..(num_rings - 1) :
       m # n => Elems(get_ring_indices(m)) \cap Elems(get_ring_indices(n)) = {}
  /\ UNION {Elems(get_ring_indices(n)) : n \in 0..(num_rings - 1)}
       = status_leds..(status_leds + SumSeq(ring_counts) - 1)
  /\ op = "get_ring_indices" =>
       /\ ~res.err
       /\ IF 0 <= args.axis /\ args.axis < num_rings
          THEN res.val = RingRange(args.axis)
          ELSE /\ res.val = << >>
               /\ \A col \in PaintColours :
                    /\ ~set_ring(args.axis, col).err
                    /\ set_ring(args.axis, col).indices = << >>

\* the third ring of an ornament behind a status pixel, of two or more pixels
C23_Witness ==
  /\ op = "get_ring_indices"
  /\ args.axis = 2
  /\ num_rings >= 3
  /\ status_leds = 1
  /\ ring_counts[1] >= 2
  /\ Len(res.val) >= 2
  /\ res.val[1] = 1 + ring_counts[1] + ring_counts[2]

(* ==== claims on a frame of step_comets ==== *)

\* a call of step_comets is being made in this step
StepCometsCalled == op = "idle" /\ op' = "step_comets"

TailOf(c) ==
  IF c.ring_len = 0 THEN {}
  ELSE {c.ring_indices[((IF c.clockwise THEN c.head_pos - t ELSE c.head_pos + t)
                          % c.ring_len) + 1] :
          t \in 0..(Min2(c.tail_length, c.ring_len) - 1)}

\* C28: after step_comets with clear=True every ornament pixel outside all
\* current tails is black, whatever the buffer held; exactly the pixels of
\* the current tails, min(tail_length, ring_len) distinct pixels per comet
\* behind its head, carry the colour flushed from the accumulator; with
\* clear=False the pixels outside all tails keep their value
C28_FrameContent ==
  [][StepCometsCalled =>
       LET tails == UNION {TailOf(comets'[k]) : k \in 1..Len(comets')}
       IN  /\ \A k \in 1..Len(comets') :
                comets'[k].ring_len > 0 =>
                  Cardinality(TailOf(comets'[k]))
                    = Min2(comets'[k].tail_length, comets'[k].ring_len)
           /\ tails = {call'.trace[k].pix : k \in 1..Len(call'.trace)}
           /\ \A i \in DOMAIN pixels' :
                IF i \in tails
                THEN pixels'[i].kind = "rgb"
                ELSE IF call'.clear /\ i \in OrnamentPixels'
                     THEN pixels'[i] = DriverBlack
                     ELSE pixels'[i] = pixels[i]]_vars

\* a moved comet on a ring longer than its tail, drawn on a cleared ornament
\* that was lit before: a pixel outside the tail is black again
C28_Witness ==
  /\ op = "step_comets"
  /\ call.clear
  /\ call.ret
  /\ Len(comets) = 1
  /\ comets[1].ring_len = 3
  /\ Cardinality(TailOf(comets[1])) = 2
  /\ now >= 1
  /\ \E i \in OrnamentPixels : i \notin TailOf(comets[1]) /\ pixels[i] = DriverBlack
  /\ \A i \in TailOf(comets[1]) : pixels[i].kind = "rgb"

(* ==== orb.py: Orb.__init__ with presets ==== *)

\* ORB_PRESETS
ORB_PRESETS ==
  [pico |-> [ring_counts |-> PicoRings, pin |-> 16, status_leds |-> 0, brightness |-> 20],
   mini |-> [ring_counts |-> MiniRings, pin |-> 19, status_leds |-> 0, brightness |-> 40]]

\* the built-in defaults of Orb.__init__
DefaultPin == 16
DefaultStatus == 0
DefaultBrightness == 20

\* an argument that was passed (is not None), and one that was left out
Given(v) == [given |-> TRUE, val |-> v]
NoInt == [given |-> FALSE, val |-> 0]
NoList == [given |-> FALSE, val |-> << >>]
NoName == [given |-> FALSE, val |-> ""]

\* the outcome of Orb.__init__: the exception raised ("" for none), whether
\* glowbit.stick.__init__ had been called, the arguments it was given, the
\* fields the orb holds, and the ORB_PRESETS table after the call
Built(counts, pin, status, brightness) ==
  [err |-> "", driver |-> TRUE, ring_counts |-> counts, pin |-> pin,
   status_leds |-> status, brightness |-> brightness,
   numLEDs |-> status + SumSeq(counts), presets |-> ORB_PRESETS]
Refused ==
  [err |-> "ValueError", driver |-> FALSE, ring_counts |-> << >>, pin |-> 0,
   status_leds |-> 0, brightness |-> 0, numLEDs |-> 0, presets |-> ORB_PRESETS]

\* variant of orb_init: the values of a preset replace the arguments passed
orb_init_presetwins(a_counts, a_pin, a_status, a_brightness, a_preset) ==
  IF a_preset.given /\ a_preset.val \notin DOMAIN ORB_PRESETS THEN Refused
  ELSE IF a_preset.given
       THEN LET cfg == ORB_PRESETS[a_preset.val]
            IN  Built(cfg.ring_counts, cfg.pin, cfg.status_leds, cfg.brightness)
       ELSE IF ~a_counts.given THEN Refused
            ELSE Built(a_counts.val,
                       IF a_pin.given THEN a_pin.val ELSE DefaultPin,
                       IF a_status.given THEN a_status.val ELSE DefaultStatus,
                       IF a_brightness.given THEN a_brightness.val ELSE DefaultBrightness)

\* Orb.__init__ up to the call of glowbit.stick.__init__: the preset fills
\* the arguments left at None, then the defaults do
orb_init(a_counts, a_pin, a_status, a_brightness, a_preset) ==
  IF a_preset.given /\ a_preset.val \notin DOMAIN ORB_PRESETS THEN Refused
  ELSE LET has == a_preset.given
           cfg == ORB_PRESETS[IF has THEN a_preset.val ELSE "pico"]
           p_counts == IF has /\ ~a_counts.given THEN Given(cfg.ring_counts) ELSE a_counts
           p_pin == IF has /\ ~a_pin.given THEN Given(cfg.pin) ELSE a_pin
           p_status == IF has /\ ~a_status.given THEN Given(cfg.status_leds) ELSE a_status
           p_bright == IF has /\ ~a_brightness.given THEN Given(cfg.brightness)
                       ELSE a_brightness
       IN  IF ~p_counts.given THEN Refused
           ELSE Built(p_counts.val,
                      IF p_pin.given THEN p_pin.val ELSE DefaultPin,
                      IF p_status.given THEN p_status.val ELSE DefaultStatus,
                      IF p_bright.given THEN p_bright.val ELSE DefaultBrightness)

(* ---- orbs constructed with and without a preset ---- *)

CountsInputs == {NoList} \cup {Given(c) : c \in BlendLayouts}
PinInputs == {NoInt, Given(5)}
StatusInputs == {NoInt} \cup {Given(n) : n \in 0..MaxStatus}
BrightnessInputs == {NoInt, Given(100)}
PresetInputs == {NoName, Given("pico"), Given("mini"), Given("maxi")}

ConstructInit ==
  /\ OrbInit(BlendLayouts)
  /\ AnimInit

\* orb = Orb(ring_counts, pin, status_leds, brightness, preset=preset); when
\* __init__ raises, the orb at hand stays the one there was
NewOrb ==
  \E ac \in CountsInputs, ap \in PinInputs, as \in StatusInputs,
     ab \in BrightnessInputs, an \in PresetInputs :
    LET r == orb_init(ac, ap, as, ab, an)
    IN  /\ op = "idle"
        /\ op' = "Orb"
        /\ args' = NoArgs
        /\ res' = IF r.err = "" THEN Ok(<< >>) ELSE Raise
        /\ call' = [name |-> "Orb", ring_counts |-> ac, pin |-> ap, status_leds |-> as,
                    brightness |-> ab, preset |-> an, out |-> r]
        /\ IF r.err = ""
           THEN /\ ring_counts' = r.ring_counts
                /\ status_leds' = r.status_leds
                /\ ring_map' = build_ring_map(r.ring_counts, r.status_leds)
                /\ outer_count' = outer_of(r.ring_counts)
                /\ num_rings' = Len(r.ring_counts)
                /\ axis_cache' = build_axis_cache(ring_map', outer_count')
                /\ pixels' = fresh_buffer(r.ring_counts, r.status_leds, DriverBlack)
                /\ written' = {}
                /\ comets' = << >>
                /\ UNCHANGED <<now, flame>>
           ELSE UNCHANGED <<topo, now, comets, pixels, written, flame>>

ConstructNext == NewOrb \/ FrameReturn

SpecConstruct == ConstructInit /\ [][ConstructNext]_vars

\* what the claim gives for one argument: the argument if passed, else the
\* value of the named preset, else the default
Resolved(arg, key, default) ==
  IF arg.given THEN arg.val
  ELSE IF call.preset.given THEN ORB_PRESETS[call.preset.val][key]
  ELSE default

\* C24: each of ring_counts, pin, status_leds and brightness resolves on its
\* own as argument, else preset value, else default (16, 0, 20); an unknown
\* preset name, or no ring_counts from either source, raises ValueError
\* before the driver is initialised; numLEDs is status_leds +
\* sum(ring_counts); ORB_PRESETS is left as it was
C24_PresetResolution ==
  op = "Orb" =>
    LET out == call.out
        unknown == call.preset.given /\ call.preset.val \notin {"pico", "mini"}
        nocounts == ~call.ring_counts.given /\ ~call.preset.given
    IN  /\ out.presets = ORB_PRESETS
        /\ IF unknown \/ nocounts
           THEN out.err = "ValueError" /\ ~out.driver /\ res.err
           ELSE /\ out.err = ""
                /\ out.driver
                /\ ring_counts = Resolved(call.ring_counts, "ring_counts", << >>)
                /\ status_leds = Resolved(call.status_leds, "status_leds", 0)
                /\ out.pin = Resolved(call.pin, "pin", 16)
                /\ out.brightness = Resolved(call.brightness, "brightness", 20)
                /\ out.numLEDs = status_leds + SumSeq(ring_counts)
                /\ DOMAIN pixels = 0..(out.numLEDs - 1)

\* the mini preset with ring_counts and status_leds overridden and the pin
\* and brightness taken from the preset
C24_Witness ==
  /\ op = "Orb"
  /\ call.preset = Given("mini")
  /\ call.ring_counts.given
  /\ call.status_leds = Given(1)
  /\ ~call.pin.given
  /\ ~call.brightness.given
  /\ call.out.pin = 19
  /\ call.out.brightness = 40
  /\ Len(ring_counts) = 1
  /\ call.out.numLEDs = 1 + ring_counts[1]

(* ---- FlameAnimation ---- *)
(* Floats are carried in fixed point: times in milliseconds, every other     *)
(* scalar in thousandths. math.sin and math.exp are replaced by rational     *)
(* approximations that are exact at 0 (sin 0 = 0, exp(-0) = 1).              *)

MaxWidth == 1
MaxFlameAxis == 2
MaxFlameClock == 1
MaxFlameSteps == 2

\* defaults of FlameAnimation.__init__, in thousandths (gust_mean in ms)
BaseColor == <<255, 160, 64>>
FlickerStrength == 450
FlickerSpeed == 1000
GustMean == 4000
GustMagMax == 900
DefaultGustSmooth == 600

PiMilli == 3142

Abs(x) == IF x >= 0 THEN x ELSE -x

Clamp(lo, hi, x) == Max2(lo, Min2(hi, x))

\* math.sin(x / 1000) * 1000, by Bhaskara's rational approximation on a half period
SinMilli(x) ==
  LET y == x % (2 * PiMilli)
      half(z) == (4 * z * (PiMilli - z))
                   \div ((5 * PiMilli * PiMilli - 4 * z * (PiMilli - z)) \div 4000)
  IN  IF y < PiMilli THEN half(y) ELSE -half(y - PiMilli)

\* math.exp(-x / 1000) * 1000 for x >= 0, by 1 / (1 + x + x^2 / 2)
ExpNegMilli(x) == (1000 * 1000) \div (1000 + x + (x * x) \div 2000)

\* round(n / d) as Python rounds: to nearest, ties to even; n >= 0, d > 0
RoundHalfEven(n, d) ==
  LET q == n \div d
      r == n % d
  IN  IF 2 * r < d THEN q
      ELSE IF 2 * r > d THEN q + 1
      ELSE IF q % 2 = 0 THEN q ELSE q + 1

\* col_indices of _build_pixel_list: the axis, then axis + d and axis - d for
\* d = 1 .. angular_width
col_indices(axis, width) ==
  [k \in 1..(2 * width + 1) |->
     IF k = 1 THEN axis
     ELSE IF k % 2 = 0 THEN (axis + k \div 2) % outer_count
     ELSE (axis - k \div 2) % outer_count]

\* the column of col_idx as _build_pixel_list reads it, cut to radial_limit
flame_column(col_idx, include_center, radial_limit) ==
  LET col == get_axis_indices(col_idx, include_center).val
  IN  IF radial_limit.given THEN Slice(col, radial_limit.val) ELSE col

\* the (pix, col_idx, col_dist, ridx) visits of the two nested loops of
\* _build_pixel_list, in order, from the k-th column on; col_dist is the
\* enumerate() counter of the column
RECURSIVE flame_visits(_, _, _, _)
flame_visits(cols, k, include_center, radial_limit) ==
  IF k > Len(cols) THEN << >>
  ELSE LET col == flame_column(cols[k], include_center, radial_limit)
       IN  [r \in 1..Len(col) |->
              [pix |-> col[r], col_idx |-> cols[k], col_dist |-> k - 1, ridx |-> r - 1]]
           \o flame_visits(cols, k + 1, include_center, radial_limit)

\* self.pixel_meta[pix] = (col_idx, col_dist, ridx): a later visit of the same
\* pixel replaces the earlier entry
meta_of(visits) ==
  LET pixs == {visits[i].pix : i \in 1..Len(visits)}
      last(p) == CHOOSE i \in 1..Len(visits) :
                   /\ visits[i].pix = p
                   /\ \A j \in 1..Len(visits) : visits[j].pix = p => j <= i
  IN  [p \in pixs |-> visits[last(p)]]

\* max_ridx over pixel_meta.values()
max_ridx_of(meta) ==
  IF DOMAIN meta = {} THEN 0
  ELSE CHOOSE m \in {meta[p].ridx : p \in DOMAIN meta} \cup {0} :
         \A p \in DOMAIN meta : meta[p].ridx <= m

\* FlameAnimation.__init__ at clock t (ms), with the default base colour and
\* flicker and gust parameters; u is the draw of random.random() (thousandths)
\* for the noise phase, delay the value of _expovariate(gust_mean) (ms)
new_flame(axis, angular_width, radial_limit, gust_smooth, include_center, t, u, delay) ==
  LET a == axis % outer_count
      w == Max2(0, angular_width)
      visits == flame_visits(col_indices(a, w), 1, include_center, radial_limit)
      meta == meta_of(visits)
  IN  [made |-> TRUE, axis |-> a, angular_width |-> w,
       radial_limit |-> radial_limit, include_center |-> include_center,
       gust_smooth |-> gust_smooth,
       pixel_list |-> [i \in 1..Len(visits) |-> visits[i].pix],
       pixel_meta |-> meta, max_ridx |-> max_ridx_of(meta),
       global_intensity |-> 1000, noise_phase |-> u * 1000, last_time |-> t,
       bias |-> 0, bias_target |-> 0, next_gust_time |-> t + delay, steps |-> 0]

\* variant of smooth_alpha: the elapsed time is floored at 100 ms
smooth_alpha_floor(dt, tau) == 1000 - ExpNegMilli((Max2(dt, 100) * 1000) \div tau)

\* 1.0 - math.exp(-dt / tau), dt and tau in ms
smooth_alpha(dt, tau) == 1000 - ExpNegMilli((dt * 1000) \div tau)

\* ang_w of step: 1 / (1 + 0.6 * col_dist), 1.0 for col_dist 0, kept in [0, 1]
ang_weight(col_dist) ==
  Clamp(0, 1000, IF col_dist > 0 THEN 10000 \div (10 + 6 * col_dist) ELSE 1000)

\* rad_w of step
rad_weight(ridx, max_ridx) ==
  Clamp(20, 1000,
        IF max_ridx > 0
        THEN 500 + (600 * (1000 - Abs((ridx * 1000) \div max_ridx - 600))) \div 1000
        ELSE 1000)

\* variant of col_sign_of: clockwise and counter-clockwise exchanged
col_sign_swapped(col_idx, axis) ==
  LET cw == (col_idx - axis) % outer_count
      ccw == (axis - col_idx) % outer_count
  IN  IF cw = ccw THEN 0 ELSE IF cw < ccw THEN -1 ELSE 1

\* col_sign of step
col_sign_of(col_idx, axis) ==
  LET cw == (col_idx - axis) % outer_count
      ccw == (axis - col_idx) % outer_count
  IN  IF cw = ccw THEN 0 ELSE IF cw < ccw THEN 1 ELSE -1

\* brightness of one pixel (thousandths) from its metadata and the scalars
\* after this step's updates
pixel_brightness(f, pix, phase, intensity, bias) ==
  LET m == f.pixel_meta[pix]
      ang_w == ang_weight(m.col_dist)
      rad_w == rad_weight(m.ridx, f.max_ridx)
      bias_contrib == IntTrunc(col_sign_of(m.col_idx, f.axis) * bias * ang_w, 1000)
      base_b == Clamp(0, 1500, IntTrunc(ang_w * rad_w, 1000)
                                 + IntTrunc(bias_contrib * 500, 1000))
      micro == IntTrunc(SinMilli(IntTrunc(phase * (71 + m.ridx * 9 + m.col_dist * 6), 10)
                                 + pix * 1000) * 500, 1000)
      depth == 800 - (m.ridx * 1000) \div Max2(1, f.max_ridx)
      jitter == IntTrunc(micro * IntTrunc(IntTrunc(180 * FlickerStrength, 1000) * depth, 1000), 1000)
  IN  Clamp(0, 2000, IntTrunc(base_b * intensity, 1000) + jitter)

\* int(max(0, min(255, round(base * brightness))))
scale_channel(base, brightness) == Clamp(0, 255, RoundHalfEven(base * brightness, 1000))

\* FlameAnimation.step(dt) at clock t: dt and t in ms; u and delay are the
\* draws random.random() (thousandths) and _expovariate(gust_mean) (ms) a gust
\* makes. signs and weights record, per pixel, the col_sign and ang_w the
\* loop used.
flame_step(f, dt, t, u, delay) ==
  LET phase == f.noise_phase + (dt * (800 + (FlickerSpeed * 1600) \div 1000)) \div 1000
      noise == IntTrunc(SinMilli((phase * 37) \div 10) * 7
                        + SinMilli((phase * 131) \div 10) * 3, 10)
      target_intensity == 1000 + IntTrunc(IntTrunc(noise * 500, 1000) * FlickerStrength, 1000)
      tau == Max2(1, (1000 * 1000) \div Max2(100, FlickerSpeed))
      alpha == smooth_alpha(dt, tau)
      intensity == f.global_intensity
                     + IntTrunc((target_intensity - f.global_intensity) * alpha, 1000)
      gust == t >= f.next_gust_time
      bias_target == IF gust THEN IntTrunc((u * 2 - 1000) * GustMagMax, 1000)
                     ELSE f.bias_target
      next_gust == IF gust THEN t + delay ELSE f.next_gust_time
      bias == IF f.gust_smooth > 0
              THEN f.bias + IntTrunc((bias_target - f.bias)
                                       * smooth_alpha(dt, f.gust_smooth), 1000)
              ELSE bias_target
      pixs == DOMAIN f.pixel_meta
      result == [p \in pixs |->
                   LET b == pixel_brightness(f, p, phase, intensity, bias)
                   IN  <<scale_channel(BaseColor[1], b), scale_channel(BaseColor[2], b),
                         scale_channel(BaseColor[3], b)>>]
  IN  [flame |-> [f EXCEPT !.noise_phase = phase, !.global_intensity = intensity,
                           !.bias_target = bias_target, !.next_gust_time = next_gust,
                           !.bias = bias, !.steps = f.steps + 1],
       gust |-> gust,
       result |-> result,
       signs |-> [p \in pixs |-> col_sign_of(f.pixel_meta[p].col_idx, f.axis)],
       weights |-> [p \in pixs |-> ang_weight(f.pixel_meta[p].col_dist)]]

\* the five evolving scalars of a flame
scalars(f) == <<f.noise_phase, f.global_intensity, f.bias, f.bias_target, f.next_gust_time>>

FlameLayouts == {c \in PaintLayouts : outer_of(c) >= 1}

\* draws of random.random(), in thousandths
RandomInputs == {0, 999}

\* values of _expovariate(gust_mean), in ms
ExpoInputs == {0, 1000}

\* dt arguments of step, in ms
DtInputs == {0, 1000}

NoLimit == [given |-> FALSE, val |-> 0]

LimitInputs == {NoLimit, [given |-> TRUE, val |-> 1]}

GustSmoothInputs == {0, DefaultGustSmooth}

\* what is observed of a call on the flame; prev is the step call before it
FlameCall(name, dt, gust, before, r, prev) ==
  [name |-> name, dt |-> dt, gust |-> gust, before |-> before,
   result |-> r.result, signs |-> r.signs, weights |-> r.weights, prev |-> prev]

NoStep == [was |-> FALSE, dt |-> 0, result |-> << >>]

NoOutput == [result |-> << >>, signs |-> << >>, weights |-> << >>]

\* f = FlameAnimation(orb, a, angular_width=w, radial_limit=rl, gust_smooth=gs,
\*                    include_center=ic)
Construct(a, w, rl, gs, ic, u, d) ==
  /\ ~flame.made
  /\ flame' = new_flame(a, w, rl, gs, ic, now, u, d)
  /\ call' = FlameCall("flame_init", 0, FALSE, scalars(flame'), NoOutput, NoStep)
  /\ UNCHANGED <<topo, query, now, comets, pixels, written>>

\* colours = f.step(dt)
Step(dt, u, d) ==
  /\ flame.made
  /\ LET r == flame_step(flame, dt, now, u, d)
     IN  /\ flame' = r.flame
         /\ call' = FlameCall("flame_step", dt, r.gust, scalars(flame), r,
                              IF call.name = "flame_step"
                              THEN [was |-> TRUE, dt |-> call.dt, result |-> call.result]
                              ELSE NoStep)
  /\ UNCHANGED <<topo, query, now, comets, pixels, written>>

(* ---- the shape of a flame: any axis, width, radial limit; one frame ---- *)

ShapeInit ==
  /\ OrbInit(FlameLayouts)
  /\ AnimInit

BuildFlame ==
  \E a \in (-1)..MaxFlameAxis, w \in (-1)..MaxWidth, rl \in LimitInputs,
     ic \in BOOLEAN, u \in RandomInputs, d \in ExpoInputs :
    Construct(a, w, rl, DefaultGustSmooth, ic, u, d)

ShapeStep ==
  \E dt \in DtInputs, u \in RandomInputs, d \in ExpoInputs :
    /\ flame.steps = 0
    /\ Step(dt, u, d)

ShapeNext == BuildFlame \/ ShapeStep

SpecShape == ShapeInit /\ [][ShapeNext]_vars

(* ---- a flame over time: axis 0 of a single ring, several frames ---- *)

FlameInit ==
  /\ OrbInit(FlameLayouts \cap BlendLayouts)
  /\ AnimInit

CreateFlame ==
  \E w \in 0..1, gs \in GustSmoothInputs, u \in RandomInputs, d \in ExpoInputs :
    Construct(0, w, NoLimit, gs, TRUE, u, d)

FlameStep ==
  \E dt \in DtInputs, u \in RandomInputs, d \in ExpoInputs :
    /\ flame.steps < MaxFlameSteps
    /\ Step(dt, u, d)

\* a second passes between two calls
FlameTick ==
  /\ now < MaxFlameClock * 1000
  /\ now' = now + 1000
  /\ UNCHANGED <<topo, query, comets, pixels, written, call, flame>>

FlameNext == CreateFlame \/ FlameStep \/ FlameTick

SpecFlame == FlameInit /\ [][FlameNext]_vars

(* ---- claims about the flame ---- *)

\* angular distance, in axes, between column c and axis a
AngularDistance(c, a) == Min2((c - a) % outer_count, (a - c) % outer_count)

\* C25: the column-distance recorded for every flame pixel is the angular
\* distance between its column and the flame's axis, so that the columns at
\* axis + d and axis - d both get d, and every pixel of the central column,
\* the shared center pixel included, has column-distance 0 and weight 1.0
C25_ColumnDistance ==
  flame.made =>
    /\ \A p \in DOMAIN flame.pixel_meta :
         flame.pixel_meta[p].col_dist
           = AngularDistance(flame.pixel_meta[p].col_idx, flame.axis)
    /\ \A p \in Elems(flame_column(flame.axis, flame.include_center, flame.radial_limit)) :
         /\ flame.pixel_meta[p].col_dist = 0
         /\ ang_weight(flame.pixel_meta[p].col_dist) = 1000

\* C26: the wind sign of a pixel of column c is +1 when (c - a) mod n is less
\* than (a - c) mod n, -1 when it is greater, 0 exactly when c is the axis or
\* its exact antipode; columns at axis + d and axis - d, 0 < d < n / 2, get
\* opposite non-zero signs
C26_WindSign ==
  call.name = "flame_step" =>
    LET n == outer_count
        a == flame.axis
        col(p) == flame.pixel_meta[p].col_idx
    IN  /\ \A p \in DOMAIN call.signs :
             LET cw == (col(p) - a) % n
                 ccw == (a - col(p)) % n
             IN  /\ cw < ccw => call.signs[p] = 1
                 /\ cw > ccw => call.signs[p] = -1
                 /\ call.signs[p] = 0 <=> (col(p) = a \/ 2 * cw = n)
        /\ \A p \in DOMAIN call.signs : \A q \in DOMAIN call.signs : \A d \in 1..n :
             (2 * d < n /\ col(p) = (a + d) % n /\ col(q) = (a - d) % n)
               => (call.signs[p] = 1 /\ call.signs[q] = -1)

\* a frame of a flame whose columns lie on both sides of its axis
C26_Witness ==
  /\ call.name = "flame_step"
  /\ \E p \in DOMAIN call.signs : call.signs[p] = 1
  /\ \E p \in DOMAIN call.signs : call.signs[p] = -1
  /\ \E p \in DOMAIN call.signs : call.signs[p] = 0

\* C21: a step(0) that meets no gust leaves noise phase, global intensity,
\* wind bias, bias target and next-gust time as they were, and returns the
\* mapping the step(0) before it returned
C21_ZeroStepIdle ==
  (call.name = "flame_step" /\ call.dt = 0 /\ ~call.gust) =>
    /\ scalars(flame) = call.before
    /\ (call.prev.was /\ call.prev.dt = 0) => call.result = call.prev.result

\* two step(0) calls a second apart, the first of which met a gust, on a flame
\* whose bias is still away from its target and whose noise phase is not 0
C21_Witness ==
  /\ call.name = "flame_step" /\ call.dt = 0 /\ ~call.gust
  /\ call.prev.was /\ call.prev.dt = 0
  /\ now > flame.last_time
  /\ flame.bias # flame.bias_target
  /\ flame.noise_phase # 0
  /\ DOMAIN call.result # {}

====
